---- MODULE Spec2Model ----
(***************************************************************************)
(* torch_points3d/modules/TorchSparse/modules.py                           *)
(*                                                                         *)
(* ResBlock, BottleneckBlock, ResNetDown and ResNetUp: the layer stacks    *)
(* their constructors build, and the dataflow of their forward methods.    *)
(*                                                                         *)
(* A module object is a record; a Seq is a record holding its modules in   *)
(* order; Python's None is the record None.  A tensor is a symbolic term:  *)
(* an input, a layer applied to a term, the sum of two terms or the        *)
(* concatenation of terms.  Every term carries C, its number of feature    *)
(* channels.  The library's layers are opaque: a layer applied to a term   *)
(* is recorded, not computed.  A layer fed a term whose channel count it   *)
(* does not accept raises inside the library (RuntimeError).               *)
(***************************************************************************)
EXTENDS Integers, Sequences, FiniteSets, TLC

\* ---------------------------------------------------------------- bounds
MaxCh == 5
MaxN == 2

\* reduction=4, the default of BottleneckBlock.__init__
DefaultReduction == 4

Chan == 1..MaxCh
\* only down_conv_nn[0] and down_conv_nn[1] are ever read, so longer lists
\* behave as the lists of length 2
ListLens == {0, 1, 2}
Lists == UNION {[1..n -> Chan] : n \in ListLens}
KernelSizes == {2, 3}
Dilations == {1, 2}
Strides == {1, 2}
Reductions == {2, 3, DefaultReduction}
BlockNames == {"ResBlock", "BottleneckBlock"}

\* the two callables passed as `convolution`: TS.nn.Conv3d and
\* partial(TS.nn.Conv3d, transpose=True)
PlainConv == "Conv3d"
TransposedConv == "partial(Conv3d, transpose=True)"
Convolutions == {PlainConv, TransposedConv}

None == [none |-> TRUE]

\* ---------------------------------------------------------------- layers
\* TS.nn.Conv3d(in_channels, out_channels, kernel_size, stride, dilation,
\* transpose); stride and dilation default to 1, transpose to False
Conv3d(in_channels, out_channels, kernel_size, stride, dilation, transpose) ==
    [cls |-> "Conv3d", in_channels |-> in_channels, out_channels |-> out_channels,
     kernel_size |-> kernel_size, stride |-> stride, dilation |-> dilation,
     transpose |-> transpose]

\* convolution(in, out, kernel_size=k, stride=s[, dilation=d]) for the
\* callable handed to a block or held in CONVOLUTION
Convolve(convolution, in_channels, out_channels, kernel_size, stride, dilation) ==
    Conv3d(in_channels, out_channels, kernel_size, stride, dilation,
           convolution = TransposedConv)

BatchNorm(num_features) == [cls |-> "BatchNorm", num_features |-> num_features]

ReLU(inplace) == [cls |-> "ReLU", inplace |-> inplace]

\* Seq().append(m1).append(m2)... : the modules in the order appended
MkSeq(mods) == [mods |-> mods]

\* `if self.downsample:` / `if self.blocks:` : None is false, a Seq is true
\* when it holds at least one module
Truthy(o) == IF o = None THEN FALSE ELSE Len(o.mods) > 0

\* ---------------------------------------------------------------- tensors
Input(name, c) == [op |-> "input", name |-> name, C |-> c]

Apply(layer, v) ==
    [op |-> "apply", layer |-> layer, arg |-> v,
     C |-> IF layer.cls = "Conv3d" THEN layer.out_channels ELSE v.C]

\* out += y
Add(out, y) == [op |-> "add", lhs |-> out, rhs |-> y, C |-> out.C]

\* TS.cat([a, b]): the features of a followed by the features of b
Cat(a, b) == [op |-> "cat", parts |-> <<a, b>>, C |-> a.C + b.C]

Accepts(layer, v) ==
    CASE layer.cls = "Conv3d" -> v.C = layer.in_channels
      [] layer.cls = "BatchNorm" -> v.C = layer.num_features
      [] OTHER -> TRUE

\* whether computing the term raised nowhere
RECURSIVE Computable(_)
Computable(v) ==
    CASE v.op = "input" -> TRUE
      [] v.op = "apply" -> Computable(v.arg) /\ Accepts(v.layer, v.arg)
      [] v.op = "add" -> Computable(v.lhs) /\ Computable(v.rhs) /\ v.lhs.C = v.rhs.C
      [] v.op = "cat" -> \A i \in DOMAIN v.parts : Computable(v.parts[i])

\* ---------------------------------------------------------------- ResBlock
\* ResBlock.__init__, with the projection shortcut built whatever the channels
ResBlock_init_AlwaysProjects(input_nc, output_nc, convolution) ==
    [cls |-> "ResBlock",
     block |-> MkSeq(<<Convolve(convolution, input_nc, output_nc, 3, 1, 1),
                     BatchNorm(output_nc),
                     ReLU(TRUE),
                     Convolve(convolution, output_nc, output_nc, 3, 1, 1),
                     BatchNorm(output_nc),
                     ReLU(TRUE)>>),
     downsample |-> MkSeq(<<Conv3d(input_nc, output_nc, 1, 1, 1, FALSE),
                           BatchNorm(output_nc)>>)]

ResBlock_init(input_nc, output_nc, convolution) ==
    [cls |-> "ResBlock",
     block |-> MkSeq(<<Convolve(convolution, input_nc, output_nc, 3, 1, 1),
                     BatchNorm(output_nc),
                     ReLU(TRUE),
                     Convolve(convolution, output_nc, output_nc, 3, 1, 1),
                     BatchNorm(output_nc),
                     ReLU(TRUE)>>),
     downsample |-> IF input_nc # output_nc
                    THEN MkSeq(<<Conv3d(input_nc, output_nc, 1, 1, 1, FALSE),
                               BatchNorm(output_nc)>>)
                    ELSE None]

\* ---------------------------------------------------------------- BottleneckBlock
\* BottleneckBlock.__init__, with the middle convolution's width taken from
\* input_nc
BottleneckBlock_init_WidthFromInput(input_nc, output_nc, convolution, reduction) ==
    [cls |-> "BottleneckBlock",
     block |-> MkSeq(<<Conv3d(input_nc, output_nc \div reduction, 1, 1, 1, FALSE),
                     BatchNorm(output_nc \div reduction),
                     ReLU(TRUE),
                     Convolve(convolution, input_nc \div reduction,
                              input_nc \div reduction, 3, 1, 1),
                     BatchNorm(output_nc \div reduction),
                     ReLU(TRUE),
                     Conv3d(output_nc \div reduction, output_nc, 1, 1, 1, FALSE),
                     BatchNorm(output_nc),
                     ReLU(TRUE)>>),
     downsample |-> IF input_nc # output_nc
                    THEN MkSeq(<<Convolve(convolution, input_nc, output_nc, 1, 1, 1),
                               BatchNorm(output_nc)>>)
                    ELSE None]

BottleneckBlock_init(input_nc, output_nc, convolution, reduction) ==
    [cls |-> "BottleneckBlock",
     block |-> MkSeq(<<Conv3d(input_nc, output_nc \div reduction, 1, 1, 1, FALSE),
                     BatchNorm(output_nc \div reduction),
                     ReLU(TRUE),
                     Convolve(convolution, output_nc \div reduction,
                              output_nc \div reduction, 3, 1, 1),
                     BatchNorm(output_nc \div reduction),
                     ReLU(TRUE),
                     Conv3d(output_nc \div reduction, output_nc, 1, 1, 1, FALSE),
                     BatchNorm(output_nc),
                     ReLU(TRUE)>>),
     downsample |-> IF input_nc # output_nc
                    THEN MkSeq(<<Convolve(convolution, input_nc, output_nc, 1, 1, 1),
                               BatchNorm(output_nc)>>)
                    ELSE None]

\* ---------------------------------------------------------------- ResNetDown
IndexError == [raise |-> "IndexError"]

Raised(r) == "raise" \in DOMAIN r

\* block = getattr(_res_blocks, block); block(input_nc, output_nc, convolution)
Block_init(block, input_nc, output_nc, convolution) ==
    IF block = "ResBlock"
    THEN ResBlock_init(input_nc, output_nc, convolution)
    ELSE BottleneckBlock_init(input_nc, output_nc, convolution, DefaultReduction)

\* ResNetDown.__init__ on an object of class cls whose class attribute
\* CONVOLUTION is the given callable.  down_conv_nn[0] and down_conv_nn[1] of
\* the code are down_conv_nn[1] and down_conv_nn[2] here.
ResNetDown_init(cls, CONVOLUTION, down_conv_nn, kernel_size, dilation, stride, N, block) ==
    IF \/ (stride > 1 /\ Len(down_conv_nn) < 1)
       \/ (~(stride > 1) /\ Len(down_conv_nn) < 2)
    THEN IndexError
    ELSE LET conv1_output == IF stride > 1 THEN down_conv_nn[1] ELSE down_conv_nn[2]
         IN  IF N > 0 /\ Len(down_conv_nn) < 2
             THEN IndexError
             ELSE [cls |-> cls,
                   conv_in |-> MkSeq(<<Convolve(CONVOLUTION, down_conv_nn[1], conv1_output,
                                               kernel_size, stride, dilation),
                                       BatchNorm(conv1_output),
                                       ReLU(TRUE)>>),
                   blocks |-> IF N > 0
                              THEN MkSeq([i \in 1..N |->
                                          Block_init(block,
                                                     IF i = 1 THEN conv1_output
                                                              ELSE down_conv_nn[2],
                                                     down_conv_nn[2], CONVOLUTION)])
                              ELSE None]

\* ---------------------------------------------------------------- ResNetUp
\* ResNetUp.__init__, with stride not handed on to ResNetDown.__init__, which
\* then takes its default stride=2
ResNetUp_init_StrideNotForwarded(up_conv_nn, kernel_size, dilation, stride, N, block) ==
    ResNetDown_init("ResNetUp", TransposedConv, up_conv_nn, kernel_size, dilation,
                    2, N, block)

ResNetUp_init(up_conv_nn, kernel_size, dilation, stride, N, block) ==
    ResNetDown_init("ResNetUp", TransposedConv, up_conv_nn, kernel_size, dilation,
                    stride, N, block)

\* ---------------------------------------------------------------- forward
RECURSIVE Seq_forward(_, _), Module_forward(_, _)

ResBlock_forward(self, x) ==
    LET out == Seq_forward(self.block, x)
    IN  IF Truthy(self.downsample)
        THEN Add(out, Seq_forward(self.downsample, x))
        ELSE Add(out, x)

BottleneckBlock_forward(self, x) ==
    LET out == Seq_forward(self.block, x)
    IN  IF Truthy(self.downsample)
        THEN Add(out, Seq_forward(self.downsample, x))
        ELSE Add(out, x)

\* calling a module held in a Seq: a block runs its forward, a library
\* layer is applied
Module_forward(m, v) ==
    CASE m.cls = "ResBlock" -> ResBlock_forward(m, v)
      [] m.cls = "BottleneckBlock" -> BottleneckBlock_forward(m, v)
      [] OTHER -> Apply(m, v)

\* Seq.forward: each module in order, each fed the previous one's result
Seq_forward(s, v) ==
    IF Len(s.mods) = 0 THEN v
    ELSE Module_forward(s.mods[Len(s.mods)],
                        Seq_forward(MkSeq(SubSeq(s.mods, 1, Len(s.mods) - 1)), v))

ResNetDown_forward(self, x) ==
    LET out == Seq_forward(self.conv_in, x)
    IN  IF Truthy(self.blocks) THEN Seq_forward(self.blocks, out) ELSE out

\* ResNetUp.forward, with the skip features put first
ResNetUp_forward_SkipFirst(self, x, skip) ==
    LET inp == IF skip # None THEN Cat(skip, x) ELSE x
    IN  ResNetDown_forward(self, inp)

ResNetUp_forward(self, x, skip) ==
    LET inp == IF skip # None THEN Cat(x, skip) ELSE x
    IN  ResNetDown_forward(self, inp)

\* ---------------------------------------------------------------- state
VARIABLES
    module,   \* the module object constructed; None before, and when the
              \* constructor raised
    ctor,     \* the one constructor call made: class and arguments
    result,   \* the last forward call that returned: its arguments and `out`
    exc       \* the exception the last call raised, "None" when it returned

vars == <<module, ctor, result, exc>>

Init ==
    /\ module = None
    /\ ctor = None
    /\ result = None
    /\ exc = "None"

\* b = ResBlock(input_nc, output_nc, convolution)
NewResBlock ==
    /\ ctor = None
    /\ \E input_nc \in Chan, output_nc \in Chan, convolution \in Convolutions :
         /\ module' = ResBlock_init(input_nc, output_nc, convolution)
         /\ ctor' = [cls |-> "ResBlock", input_nc |-> input_nc,
                     output_nc |-> output_nc, convolution |-> convolution]
    /\ result' = None
    /\ exc' = "None"

\* b = BottleneckBlock(input_nc, output_nc, convolution, reduction)
NewBottleneckBlock ==
    /\ ctor = None
    /\ \E input_nc \in Chan, output_nc \in Chan, convolution \in Convolutions,
          reduction \in Reductions :
         /\ module' = BottleneckBlock_init(input_nc, output_nc, convolution, reduction)
         /\ ctor' = [cls |-> "BottleneckBlock", input_nc |-> input_nc,
                     output_nc |-> output_nc, convolution |-> convolution,
                     reduction |-> reduction]
    /\ result' = None
    /\ exc' = "None"

\* the outcome of a forward call that computed the term `out`
Returns(x, skip, out) ==
    IF Computable(out)
    THEN /\ result' = [x |-> x, skip |-> skip, out |-> out]
         /\ exc' = "None"
    ELSE /\ result' = None
         /\ exc' = "RuntimeError"

\* out = b(x) on a ResBlock
CallResBlock ==
    /\ module # None
    /\ module.cls = "ResBlock"
    /\ \E c \in Chan :
         LET x == Input("x", c)
         IN  Returns(x, None, ResBlock_forward(module, x))
    /\ UNCHANGED <<module, ctor>>

\* out = b(x) on a BottleneckBlock
CallBottleneckBlock ==
    /\ module # None
    /\ module.cls = "BottleneckBlock"
    /\ \E c \in Chan :
         LET x == Input("x", c)
         IN  Returns(x, None, BottleneckBlock_forward(module, x))
    /\ UNCHANGED <<module, ctor>>

\* the outcome of a ResNetDown / ResNetUp constructor call
Constructs(call, r) ==
    /\ ctor' = call
    /\ result' = None
    /\ IF Raised(r)
       THEN module' = None /\ exc' = r.raise
       ELSE module' = r /\ exc' = "None"

\* net = ResNetDown(down_conv_nn, kernel_size, dilation, stride, N, block)
NewResNetDown ==
    /\ ctor = None
    /\ \E nn \in Lists, kernel_size \in KernelSizes, dilation \in Dilations,
          stride \in Strides, N \in 0..MaxN, block \in BlockNames :
         Constructs([cls |-> "ResNetDown", conv_nn |-> nn, kernel_size |-> kernel_size,
                     dilation |-> dilation, stride |-> stride, N |-> N, block |-> block],
                    ResNetDown_init("ResNetDown", PlainConv, nn, kernel_size, dilation,
                                    stride, N, block))

\* net = ResNetUp(up_conv_nn, kernel_size, dilation, stride, N, block=block)
NewResNetUp ==
    /\ ctor = None
    /\ \E nn \in Lists, kernel_size \in KernelSizes, dilation \in Dilations,
          stride \in Strides, N \in 0..MaxN, block \in BlockNames :
         Constructs([cls |-> "ResNetUp", conv_nn |-> nn, kernel_size |-> kernel_size,
                     dilation |-> dilation, stride |-> stride, N |-> N, block |-> block],
                    ResNetUp_init(nn, kernel_size, dilation, stride, N, block))

\* out = net(x) on a ResNetDown
CallResNetDown ==
    /\ module # None
    /\ module.cls = "ResNetDown"
    /\ \E c \in Chan :
         LET x == Input("x", c)
         IN  Returns(x, None, ResNetDown_forward(module, x))
    /\ UNCHANGED <<module, ctor>>

\* out = net(x, skip) on a ResNetUp
CallResNetUp ==
    /\ module # None
    /\ module.cls = "ResNetUp"
    /\ \E c \in Chan, skip \in {None} \cup {Input("skip", k) : k \in Chan} :
         LET x == Input("x", c)
         IN  Returns(x, skip, ResNetUp_forward(module, x, skip))
    /\ UNCHANGED <<module, ctor>>

Next ==
    \/ NewResBlock
    \/ NewBottleneckBlock
    \/ NewResNetDown
    \/ NewResNetUp
    \/ CallResBlock
    \/ CallBottleneckBlock
    \/ CallResNetDown
    \/ CallResNetUp

Spec == Init /\ [][Next]_vars

\* ---------------------------------------------------------------- properties
BlockCalled == ctor # None /\ ctor.cls \in BlockNames /\ result # None

\* v is batch-norm(conv(x)) for a 1x1 stride-1 convolution input_nc -> output_nc
IsProjectionOf(v, x, input_nc, output_nc) ==
    /\ v.op = "apply"
    /\ v.layer = BatchNorm(output_nc)
    /\ v.arg.op = "apply"
    /\ v.arg.layer.cls = "Conv3d"
    /\ v.arg.layer.kernel_size = 1
    /\ v.arg.layer.stride = 1
    /\ v.arg.layer.in_channels = input_nc
    /\ v.arg.layer.out_channels = output_nc
    /\ v.arg.arg = x

\* C1: a ResBlock or BottleneckBlock forward returns block(x) + s(x), the sum
\* being the outermost operation; s(x) is batch-norm of a 1x1 stride-1
\* convolution input_nc -> output_nc of x exactly when input_nc # output_nc,
\* and x itself exactly when input_nc = output_nc.
C1_ShortcutSum ==
    BlockCalled =>
        /\ result.out.op = "add"
        /\ result.out.lhs = Seq_forward(module.block, result.x)
        /\ (ctor.input_nc # ctor.output_nc)
             <=> IsProjectionOf(result.out.rhs, result.x, ctor.input_nc, ctor.output_nc)
        /\ (ctor.input_nc = ctor.output_nc) <=> (result.out.rhs = result.x)

C1_Witness ==
    /\ BlockCalled
    /\ ctor.cls = "ResBlock"
    /\ ctor.input_nc # ctor.output_nc
    /\ result.out.rhs.op = "apply"

RECURSIVE EverySumProjects(_, _, _, _)
\* v is the result of blocks 1..n of blks run in sequence on conv_in(x), each
\* block's sum taking a 1x1 convolution + batch-norm of that block's input
EverySumProjects(v, n, net, x) ==
    IF n = 0
    THEN v = Seq_forward(net.conv_in, x)
    ELSE /\ v.op = "add"
         /\ v.rhs.op = "apply"
         /\ v.rhs.layer.cls = "BatchNorm"
         /\ v.rhs.arg.op = "apply"
         /\ v.rhs.arg.layer.cls = "Conv3d"
         /\ v.rhs.arg.layer.kernel_size = 1
         /\ v.lhs = Seq_forward(net.blocks.mods[n].block, v.rhs.arg.arg)
         /\ EverySumProjects(v.rhs.arg.arg, n - 1, net, x)

\* C2: ResNetDown.forward applies the input stage and then the N blocks in
\* sequence, and every one of the N blocks adds a 1x1 convolution + batch-norm
\* of its input to its main branch.
C2_EveryBlockProjects ==
    (ctor # None /\ ctor.cls = "ResNetDown" /\ result # None) =>
        EverySumProjects(result.out, ctor.N, module, result.x)

\* the convolutions among the modules of a Seq, None holding none
ConvsOf(s) ==
    IF s = None THEN {}
    ELSE {s.mods[i] : i \in {j \in DOMAIN s.mods : s.mods[j].cls = "Conv3d"}}

BlocksOf(net) ==
    IF net.blocks = None THEN {}
    ELSE {net.blocks.mods[i] : i \in DOMAIN net.blocks.mods}

AllConvsOf(net) ==
    ConvsOf(net.conv_in)
      \cup UNION {ConvsOf(b.block) \cup ConvsOf(b.downsample) : b \in BlocksOf(net)}

\* a module with every convolution in it made plain
PlainLayer(m) == IF m.cls = "Conv3d" THEN [m EXCEPT !.transpose = FALSE] ELSE m

PlainSeq(s) ==
    IF s = None THEN None
    ELSE MkSeq([i \in DOMAIN s.mods |-> PlainLayer(s.mods[i])])

PlainBlock(b) ==
    [cls |-> b.cls, block |-> PlainSeq(b.block), downsample |-> PlainSeq(b.downsample)]

PlainNet(net) ==
    [conv_in |-> PlainSeq(net.conv_in),
     blocks |-> IF net.blocks = None THEN None
                ELSE MkSeq([i \in DOMAIN net.blocks.mods |->
                            PlainBlock(net.blocks.mods[i])])]

UpBuilt == ctor # None /\ ctor.cls = "ResNetUp"

\* what ResNetDown builds from the arguments of the constructor call made
DownOfCtor ==
    ResNetDown_init("ResNetDown", PlainConv, ctor.conv_nn, ctor.kernel_size,
                    ctor.dilation, ctor.stride, ctor.N, ctor.block)

\* the convolutions of a ResNetUp are transposed exactly where they are built
\* from the CONVOLUTION callable
TransposedWhereCallable(net) ==
    /\ \A c \in ConvsOf(net.conv_in) : c.transpose
    /\ \A b \in BlocksOf(net) :
         IF b.cls = "ResBlock"
         THEN /\ \A c \in ConvsOf(b.block) : c.transpose
              /\ \A c \in ConvsOf(b.downsample) : ~c.transpose
         ELSE /\ \A c \in ConvsOf(b.block) : c.transpose <=> (c.kernel_size = 3)
              /\ \A c \in ConvsOf(b.downsample) : c.transpose

\* C3 as stated: ResNetUp builds what ResNetDown builds from the same
\* arguments, except that every convolution of ResNetUp is transposed where
\* ResNetDown's is plain.
C3_EveryConvTransposed ==
    UpBuilt =>
        IF Raised(DownOfCtor)
        THEN module = None /\ exc = DownOfCtor.raise
        ELSE /\ module # None
             /\ PlainNet(module) = PlainNet(DownOfCtor)
             /\ \A c \in AllConvsOf(DownOfCtor) : ~c.transpose
             /\ \A c \in AllConvsOf(module) : c.transpose

\* C3 (amended): ResNetUp builds the layer structure ResNetDown builds from
\* the same arguments and raises when ResNetDown raises; every convolution of
\* ResNetDown is plain, and the convolutions of ResNetUp are transposed exactly
\* where the CONVOLUTION callable builds them: in conv_in, in a ResBlock's main
\* branch, and for a BottleneckBlock's 3x3 convolution and projection shortcut.
C3_TransposedWhereCallable ==
    UpBuilt =>
        IF Raised(DownOfCtor)
        THEN module = None /\ exc = DownOfCtor.raise
        ELSE /\ module # None
             /\ PlainNet(module) = PlainNet(DownOfCtor)
             /\ \A c \in AllConvsOf(DownOfCtor) : ~c.transpose
             /\ TransposedWhereCallable(module)

C3_Witness ==
    /\ UpBuilt
    /\ module # None
    /\ ctor.N > 1
    /\ \E b \in BlocksOf(module) : b.cls = "BottleneckBlock" /\ Truthy(b.downsample)
    /\ \E b \in BlocksOf(module) : ~Truthy(b.downsample)

RECURSIVE Source(_)
\* the term a pipeline was run on: through each layer to its argument, through
\* each sum to its main branch
Source(v) ==
    CASE v.op = "apply" -> Source(v.arg)
      [] v.op = "add" -> Source(v.lhs)
      [] OTHER -> v

UpCalled == ctor # None /\ ctor.cls = "ResNetUp" /\ result # None

\* C4: ResNetUp.forward(x, skip) returns the ResNetDown forward pipeline run
\* on cat([x, skip]), x first, of channels(x) + channels(skip) channels, when
\* skip is not None, and run on x when skip is None.
C4_SkipConcatenated ==
    UpCalled =>
        LET inp == Source(result.out)
        IN  /\ result.out = ResNetDown_forward(module, inp)
            /\ inp.C = module.conv_in.mods[1].in_channels
            /\ IF result.skip # None
               THEN /\ inp.op = "cat"
                    /\ inp.parts = <<result.x, result.skip>>
                    /\ inp.C = result.x.C + result.skip.C
               ELSE inp = result.x

C4_Witness ==
    /\ UpCalled
    /\ result.skip # None
    /\ Truthy(module.blocks)

\* the main branch of BottleneckBlock b built for input_nc, output_nc
BottleneckMain(b, input_nc, output_nc, reduction, convolution) ==
    LET m == b.block.mods
        w == m[1].out_channels
    IN  /\ Len(m) = 9
        /\ \A g \in 0..2 : /\ m[3 * g + 1].cls = "Conv3d"
                           /\ m[3 * g + 2].cls = "BatchNorm"
                           /\ m[3 * g + 3] = ReLU(TRUE)
        /\ w * reduction <= output_nc
        /\ output_nc < (w + 1) * reduction
        /\ <<m[1].kernel_size, m[4].kernel_size, m[7].kernel_size>> = <<1, 3, 1>>
        /\ <<m[1].in_channels, m[1].out_channels>> = <<input_nc, w>>
        /\ <<m[4].in_channels, m[4].out_channels>> = <<w, w>>
        /\ <<m[7].in_channels, m[7].out_channels>> = <<w, output_nc>>
        /\ <<m[2].num_features, m[5].num_features, m[8].num_features>>
             = <<w, w, output_nc>>
        /\ ~m[1].transpose
        /\ ~m[7].transpose
        /\ m[4].transpose <=> (convolution = TransposedConv)

BottleneckBuilt == ctor # None /\ ctor.cls = "BottleneckBlock"

\* C5: the main branch of a BottleneckBlock is three convolution, batch-norm,
\* ReLU groups of kernel sizes 1, 3, 1 and channels input_nc -> w -> w ->
\* output_nc with w = floor(output_nc / reduction) everywhere; of its
\* convolutions only the 3x3 one is the caller's.
C5_BottleneckWidth ==
    /\ BottleneckBuilt =>
         BottleneckMain(module, ctor.input_nc, ctor.output_nc, ctor.reduction,
                        ctor.convolution)
    /\ (ctor # None /\ ctor.cls \in {"ResNetDown", "ResNetUp"} /\ module # None
          /\ ctor.block = "BottleneckBlock") =>
         \A i \in 1..ctor.N :
           BottleneckMain(module.blocks.mods[i],
                          IF i = 1 /\ ctor.stride > 1 THEN ctor.conv_nn[1]
                                                      ELSE ctor.conv_nn[2],
                          ctor.conv_nn[2], DefaultReduction,
                          IF ctor.cls = "ResNetUp" THEN TransposedConv ELSE PlainConv)

C5_Witness ==
    /\ BottleneckBuilt
    /\ ctor.output_nc > ctor.reduction
    /\ ctor.output_nc % ctor.reduction # 0
    /\ ctor.input_nc \div ctor.reduction # ctor.output_nc \div ctor.reduction
    /\ ctor.convolution = TransposedConv

====
